---- MODULE Spec2Model ----
(***************************************************************************)
(* Model of the chart-sampling engine of src/app.py: the hover sweep       *)
(* (synthetic_svg_sweep), the snapshot parser and series reconciler        *)
(* (refine_points, try_parse_date) and the per-platform loop of            *)
(* scrape_codolio.                                                         *)
(*                                                                         *)
(* Text is modelled at character level: a Python str is a sequence of      *)
(* one-character strings, so that strip, splitlines, split, substring      *)
(* tests, digit extraction and lexicographic comparison are computed as    *)
(* the code computes them.  A Python value that may be None is a sequence  *)
(* of length 0 (None) or 1 (the value).                                    *)
(***************************************************************************)
EXTENDS Integers, Sequences, FiniteSets, TLC

VARIABLES
    pc,               \* position of the coroutine scrape_codolio / synthetic_svg_sweep
    pi,               \* index into PLATFORMS of the platform being processed
    old_panel,        \* baseline panel read taken after the tab click (None or a panel)
    box,              \* svg.bounding_box(): None or <<[x, y, width, height]>>
    xi,               \* loop variable i of the X loop, 0-based
    yi,               \* 1-based index into y_positions of the probe in progress
    probe,            \* <<cx, cy>> of the last dispatch_event_at, None before the first
    panel,            \* result of the last READ_PANEL_JS evaluation of the sweep
    tips,             \* result of the last READ_TOOLTIPS_JS evaluation of the sweep
    snapshots,        \* list built and returned by synthetic_svg_sweep
    refined,          \* value returned by refine_points
    contestRankings,  \* data["contestRankings"], platform key -> None or <<Series>>
    response,         \* what the request ends with: "pending", "ok" or "http500"
    hist              \* history: what happened, for stating the claims

vars == <<pc, pi, old_panel, box, xi, yi, probe, panel, tips, snapshots, refined,
          contestRankings, response, hist>>

----------------------------------------------------------------------------
(* Optional values *)

None == <<>>

Some(v) == <<v>>

IsNone(o) == o = <<>>

Val(o) == o[1]

\* Python truthiness of an optional int: None and 0 are falsy
TruthyInt(o) == o # None /\ Val(o) # 0

\* Python truthiness of an optional str: None and "" are falsy
TruthyStr(o) == o # None /\ Val(o) # <<>>

----------------------------------------------------------------------------
(* Characters and strings *)

\* The characters the model's texts are written in, in code point order.
Alphabet ==
    << "\n", " ", ",", "-",
       "0", "1", "2", "3", "4", "5", "6", "7", "8", "9",
       "A", "B", "C", "D", "E", "F", "G", "H", "I", "J", "K", "L", "M",
       "N", "O", "P", "Q", "R", "S", "T", "U", "V", "W", "X", "Y", "Z",
       "a", "b", "c", "d", "e", "f", "g", "h", "i", "j", "k", "l", "m",
       "n", "o", "p", "q", "r", "s", "t", "u", "v", "w", "x", "y", "z" >>

Ord(c) == CHOOSE i \in 1..Len(Alphabet) : Alphabet[i] = c

IsDigit(c) == c \in {"0", "1", "2", "3", "4", "5", "6", "7", "8", "9"}

IsSpace(c) == c \in {" ", "\n"}

DigitVal(c) == Ord(c) - Ord("0")

IsUpper(c) == Ord(c) >= Ord("A") /\ Ord(c) <= Ord("Z")

\* str.lower() on one character
Lower(c) == IF IsUpper(c) THEN Alphabet[Ord(c) + 26] ELSE c

LowerStr(s) == [i \in 1..Len(s) |-> Lower(s[i])]

\* str.isdigit(): non-empty and all digits
IsDigitStr(s) == Len(s) > 0 /\ \A i \in 1..Len(s) : IsDigit(s[i])

\* int(s) for a string of digits
RECURSIVE IntOf(_)
IntOf(s) == IF s = <<>> THEN 0 ELSE 10 * IntOf(SubSeq(s, 1, Len(s) - 1)) + DigitVal(s[Len(s)])

\* str(n) for n >= 0
RECURSIVE StrOfInt(_)
StrOfInt(n) ==
    IF n < 10 THEN <<Alphabet[Ord("0") + n]>>
    ELSE StrOfInt(n \div 10) \o <<Alphabet[Ord("0") + (n % 10)]>>

\* n formatted with at least w digits, zero padded (%04d, %02d)
RECURSIVE ZeroPad(_, _)
ZeroPad(s, w) == IF Len(s) >= w THEN s ELSE ZeroPad(<<"0">> \o s, w)

RECURSIVE LStrip(_)
LStrip(s) == IF s # <<>> /\ IsSpace(s[1]) THEN LStrip(Tail(s)) ELSE s

RECURSIVE RStrip(_)
RStrip(s) == IF s # <<>> /\ IsSpace(s[Len(s)]) THEN RStrip(SubSeq(s, 1, Len(s) - 1)) ELSE s

\* str.strip()
Strip(s) == RStrip(LStrip(s))

\* sub in s
Contains(s, sub) ==
    \E i \in 1..(Len(s) - Len(sub) + 1) : SubSeq(s, i, i + Len(sub) - 1) = sub

\* "".join(ch for ch in s if ch.isdigit())
RECURSIVE DigitsOf(_)
DigitsOf(s) ==
    IF s = <<>> THEN <<>>
    ELSE (IF IsDigit(s[1]) THEN <<s[1]>> ELSE <<>>) \o DigitsOf(Tail(s))

\* s.split(sep) for a one-character separator, empty pieces kept
RECURSIVE SplitOn(_, _, _)
SplitOn(s, sep, cur) ==
    IF s = <<>> THEN <<cur>>
    ELSE IF s[1] = sep THEN <<cur>> \o SplitOn(Tail(s), sep, <<>>)
    ELSE SplitOn(Tail(s), sep, Append(cur, s[1]))

\* str.splitlines(), as far as the filter "if ln.strip()" can tell
SplitLines(s) == SplitOn(s, "\n", <<>>)

\* str.split(): pieces between runs of whitespace, no empty piece
RECURSIVE SplitWs(_, _)
SplitWs(s, cur) ==
    IF s = <<>> THEN (IF cur = <<>> THEN <<>> ELSE <<cur>>)
    ELSE IF IsSpace(s[1])
         THEN (IF cur = <<>> THEN <<>> ELSE <<cur>>) \o SplitWs(Tail(s), <<>>)
         ELSE SplitWs(Tail(s), Append(cur, s[1]))

Split(s) == SplitWs(s, <<>>)

\* sep.join(parts)
RECURSIVE Join(_, _)
Join(parts, sep) ==
    IF parts = <<>> THEN <<>>
    ELSE IF Len(parts) = 1 THEN parts[1]
    ELSE parts[1] \o sep \o Join(Tail(parts), sep)

\* s.replace(old, new)
RECURSIVE Replace(_, _, _)
Replace(s, old, new) ==
    IF Len(s) < Len(old) THEN s
    ELSE IF SubSeq(s, 1, Len(old)) = old
         THEN new \o Replace(SubSeq(s, Len(old) + 1, Len(s)), old, new)
         ELSE <<s[1]>> \o Replace(Tail(s), old, new)

\* a < b for Python str: lexicographic by code point
RECURSIVE StrLess(_, _)
StrLess(a, b) ==
    IF b = <<>> THEN FALSE
    ELSE IF a = <<>> THEN TRUE
    ELSE IF a[1] = b[1] THEN StrLess(Tail(a), Tail(b))
    ELSE Ord(a[1]) < Ord(b[1])

----------------------------------------------------------------------------
(* Date Normalizer: try_parse_date *)

\* %b of strptime: the abbreviated month names, matched ignoring case
MonthAbbr ==
    << <<"j", "a", "n">>,
       <<"f", "e", "b">>,
       <<"m", "a", "r">>,
       <<"a", "p", "r">>,
       <<"m", "a", "y">>,
       <<"j", "u", "n">>,
       <<"j", "u", "l">>,
       <<"a", "u", "g">>,
       <<"s", "e", "p">>,
       <<"o", "c", "t">>,
       <<"n", "o", "v">>,
       <<"d", "e", "c">> >>

\* %B of strptime: the full month names, matched ignoring case
MonthFull ==
    << <<"j", "a", "n", "u", "a", "r", "y">>,
       <<"f", "e", "b", "r", "u", "a", "r", "y">>,
       <<"m", "a", "r", "c", "h">>,
       <<"a", "p", "r", "i", "l">>,
       <<"m", "a", "y">>,
       <<"j", "u", "n", "e">>,
       <<"j", "u", "l", "y">>,
       <<"a", "u", "g", "u", "s", "t">>,
       <<"s", "e", "p", "t", "e", "m", "b", "e", "r">>,
       <<"o", "c", "t", "o", "b", "e", "r">>,
       <<"n", "o", "v", "e", "m", "b", "e", "r">>,
       <<"d", "e", "c", "e", "m", "b", "e", "r">> >>

\* index of the month a token names in the list `names`, 0 when it names none
MonthIndex(tok, names) ==
    IF \E i \in 1..12 : names[i] = LowerStr(tok)
    THEN CHOOSE i \in 1..12 : names[i] = LowerStr(tok)
    ELSE 0

\* %d of strptime: 3[0-1]|[1-2]\d|0[1-9]|[1-9]| [1-9]
DayMatch(tok) ==
    \/ Len(tok) = 1 /\ IsDigit(tok[1]) /\ tok[1] # "0"
    \/ Len(tok) = 2 /\ tok[1] = "3" /\ tok[2] \in {"0", "1"}
    \/ Len(tok) = 2 /\ tok[1] \in {"1", "2"} /\ IsDigit(tok[2])
    \/ Len(tok) = 2 /\ tok[1] \in {"0", " "} /\ IsDigit(tok[2]) /\ tok[2] # "0"

\* %m of strptime: 1[0-2]|0[1-9]|[1-9]
MonthNumMatch(tok) ==
    \/ Len(tok) = 1 /\ IsDigit(tok[1]) /\ tok[1] # "0"
    \/ Len(tok) = 2 /\ tok[1] = "1" /\ tok[2] \in {"0", "1", "2"}
    \/ Len(tok) = 2 /\ tok[1] = "0" /\ IsDigit(tok[2]) /\ tok[2] # "0"

\* %Y of strptime: \d\d\d\d
YearMatch(tok) == Len(tok) = 4 /\ IsDigitStr(tok)

IsLeap(y) == (y % 4 = 0 /\ y % 100 # 0) \/ y % 400 = 0

DaysInMonth(y, m) ==
    IF m = 2 THEN (IF IsLeap(y) THEN 29 ELSE 28)
    ELSE IF m \in {4, 6, 9, 11} THEN 30 ELSE 31

\* datetime(y, m, d): None where the constructor raises ValueError
MakeDate(y, m, d) ==
    IF y >= 1 /\ m \in 1..12 /\ d >= 1 /\ d <= DaysInMonth(y, m)
    THEN Some(<<y, m, d>>) ELSE None

\* the month-name formats applied to the white-space separated tokens of s
\* (white space in a format matches any run of white space)
MatchDMY(parts, names, suffix) ==
    IF /\ Len(parts) = 3
       /\ DayMatch(parts[1])
       /\ Len(parts[2]) > Len(suffix)
       /\ SubSeq(parts[2], Len(parts[2]) - Len(suffix) + 1, Len(parts[2])) = suffix
       /\ MonthIndex(SubSeq(parts[2], 1, Len(parts[2]) - Len(suffix)), names) # 0
       /\ YearMatch(parts[3])
    THEN MakeDate(IntOf(parts[3]),
                  MonthIndex(SubSeq(parts[2], 1, Len(parts[2]) - Len(suffix)), names),
                  IntOf(parts[1]))
    ELSE None

\* datetime.strptime(s, "%d %b %Y") with names = MonthAbbr, suffix = "",
\* "%d %B %Y" with names = MonthFull, "%d %b, %Y" with suffix = ",";
\* None on ValueError
StrptimeDMY(s, names, suffix) ==
    IF s # <<>> /\ ~IsSpace(s[1]) /\ ~IsSpace(s[Len(s)])
    THEN MatchDMY(Split(s), names, suffix)
    ELSE None

MatchISO(parts) ==
    IF /\ Len(parts) = 3
       /\ YearMatch(parts[1])
       /\ MonthNumMatch(parts[2])
       /\ DayMatch(parts[3])
    THEN MakeDate(IntOf(parts[1]), IntOf(parts[2]), IntOf(DigitsOf(parts[3])))
    ELSE None

\* datetime.strptime(s, "%Y-%m-%d"); None on ValueError
StrptimeISO(s) == MatchISO(SplitOn(s, "-", <<>>))

\* a if a is not None, else b
OrElse(a, b) == IF a # None THEN a ELSE b

\* f"{day} {month} {year}" parsed with the two month-name formats
ParseRebuilt(t) ==
    OrElse(StrptimeDMY(t, MonthAbbr, <<>>), StrptimeDMY(t, MonthFull, <<>>))

FallbackParts(parts) ==
    IF Len(parts) = 3 /\ IsDigitStr(parts[1]) /\ IsDigitStr(parts[3])
    THEN ParseRebuilt(StrOfInt(IntOf(parts[1])) \o <<" ">> \o parts[2] \o <<" ">>
                        \o StrOfInt(IntOf(parts[3])))
    ELSE None

\* the fallback of try_parse_date: int() of the day and year tokens, reformatted
\* and parsed again with the two month-name formats
ParseFallback(s) == FallbackParts(Split(s))

\* the formats of try_parse_date in order, then the fallback
ParseFormats(s) ==
    OrElse(StrptimeDMY(s, MonthAbbr, <<>>),
    OrElse(StrptimeDMY(s, MonthFull, <<>>),
    OrElse(StrptimeDMY(s, MonthAbbr, <<",">>),
    OrElse(StrptimeISO(s),
           ParseFallback(s)))))

\* try_parse_date(dstr) for dstr an optional str: None or <<y, m, d>>
try_parse_date(dstr) ==
    IF ~TruthyStr(dstr) THEN None
    ELSE ParseFormats(Replace(Strip(Val(dstr)), <<"S", "e", "p", "t", " ">>, <<"S", "e", "p", " ">>))

\* date.isoformat()
isoformat(d) ==
    ZeroPad(StrOfInt(d[1]), 4) \o <<"-">> \o ZeroPad(StrOfInt(d[2]), 2) \o <<"-">>
        \o ZeroPad(StrOfInt(d[3]), 2)

----------------------------------------------------------------------------
(* Snapshot Parser and Series Reconciler: refine_points *)

\* the month tokens the tooltip parser looks for in a date candidate
MonthTokens ==
    { <<"J", "a", "n">>,
      <<"F", "e", "b">>,
      <<"M", "a", "r">>,
      <<"A", "p", "r">>,
      <<"M", "a", "y">>,
      <<"J", "u", "n">>,
      <<"J", "u", "l">>,
      <<"A", "u", "g">>,
      <<"S", "e", "p">>,
      <<"O", "c", "t">>,
      <<"N", "o", "v">>,
      <<"D", "e", "c">>,
      <<"S", "e", "p", "t">> }

\* the positions of ln where three digits start
DigitRunStarts(ln) ==
    {i \in 1..(Len(ln) - 2) : IsDigit(ln[i]) /\ IsDigit(ln[i + 1]) /\ IsDigit(ln[i + 2])}

\* the run of three to five digits that starts at i, taken greedily
DigitRunAt(ln, i) ==
    SubSeq(ln, i,
           IF i + 3 <= Len(ln) /\ IsDigit(ln[i + 3])
           THEN (IF i + 4 <= Len(ln) /\ IsDigit(ln[i + 4]) THEN i + 4 ELSE i + 3)
           ELSE i + 2)

LeftmostRun(ln, starts) ==
    IF starts = {} THEN None
    ELSE Some(DigitRunAt(ln, CHOOSE k \in starts : \A j \in starts : k <= j))

\* re.search(r"(\d{3,5})", ln): the leftmost run of three digits, extended
\* greedily to at most five; None when no position starts three digits
SearchDigits3to5(ln) == LeftmostRun(ln, DigitRunStarts(ln))

\* lines = [ln.strip() for ln in raw.splitlines() if ln.strip()]
RECURSIVE StrippedLines(_)
StrippedLines(lns) ==
    IF lns = <<>> THEN <<>>
    ELSE (IF Strip(lns[1]) # <<>> THEN <<Strip(lns[1])>> ELSE <<>>) \o StrippedLines(Tail(lns))

\* the rank a line leaves: a line containing "Rank" sets it to the integer of
\* all its digits; int("") raises and the except keeps the rank as it was
LineRank(rank, ln) ==
    IF Contains(ln, <<"R", "a", "n", "k">>) /\ DigitsOf(ln) # <<>>
    THEN Some(IntOf(DigitsOf(ln))) ELSE rank

\* the rating a line leaves: the first 3-5 digit run of the line, taken when
\* the rating so far is falsy (None or 0)
RatingFromMatch(rating, m) ==
    IF m # None /\ ~TruthyInt(rating) THEN Some(IntOf(Val(m))) ELSE rating

LineRating(rating, ln) == RatingFromMatch(rating, SearchDigits3to5(ln))

LineContest(contest, ln) ==
    IF Contains(ln, <<"C", "o", "n", "t", "e", "s", "t">>) \/ Contains(ln, <<"c", "o", "n", "t", "e", "s", "t">>)
    THEN Some(ln) ELSE contest

\* ds if any month token occurs in it
DateIfMonth(date_str, ds) ==
    IF \E mm \in MonthTokens : Contains(ds, mm) THEN Some(ds) ELSE date_str

\* parts = ln.split(): the last three tokens, when the last is a 4-digit number
DateFromParts(date_str, parts) ==
    IF Len(parts) >= 3 /\ IsDigitStr(parts[Len(parts)]) /\ Len(parts[Len(parts)]) = 4
    THEN DateIfMonth(date_str, Join(SubSeq(parts, Len(parts) - 2, Len(parts)), <<" ">>))
    ELSE date_str

LineDate(date_str, ln) == DateFromParts(date_str, Split(ln))

\* the body of "for ln in lines" applied from line k on
RECURSIVE ParseLines(_, _, _)
ParseLines(lines, k, acc) ==
    IF k > Len(lines) THEN acc
    ELSE ParseLines(lines, k + 1,
            [rank |-> LineRank(acc.rank, lines[k]),
             rating |-> LineRating(acc.rating, lines[k]),
             contest |-> LineContest(acc.contest, lines[k]),
             date_str |-> LineDate(acc.date_str, lines[k])])

NoFields == [rank |-> None, rating |-> None, contest |-> None, date_str |-> None]

\* the else branch of refine_points: the tooltip heuristic
ParseTooltip(item) ==
    ParseLines(StrippedLines(SplitLines(
                  IF "raw_tooltip" \in DOMAIN item THEN item.raw_tooltip ELSE <<>>)),
               1, NoFields)

\* the fields refine_points extracts from one snapshot
ParseItem(item) ==
    IF "contestName" \in DOMAIN item /\ TruthyStr(item.contestName)
    THEN [rank |-> item.rank, rating |-> item.rating, contest |-> item.contestName,
          date_str |-> item.date]
    ELSE ParseTooltip(item)

\* iso = parsed.isoformat() if parsed else None
IsoFormatOpt(parsed) == IF parsed # None THEN Some(isoformat(Val(parsed))) ELSE None

IsoOf(date_str) ==
    IsoFormatOpt(IF TruthyStr(date_str) THEN try_parse_date(date_str) ELSE None)

\* a key that takes the date string as written, whether or not it parses
DedupKeyRawDate(date_str, iso, contest) ==
    << IF TruthyStr(date_str) THEN Val(date_str) ELSE <<>>,
       Strip(IF TruthyStr(contest) THEN Val(contest) ELSE <<>>) >>

\* key = (iso if iso else date_str or "", (contest or "").strip())
DedupKey(date_str, iso, contest) ==
    << IF TruthyStr(iso) THEN Val(iso)
       ELSE IF TruthyStr(date_str) THEN Val(date_str) ELSE <<>>,
       Strip(IF TruthyStr(contest) THEN Val(contest) ELSE <<>>) >>

Bool2Int(b) == IF b THEN 1 ELSE 0

\* sum(1 for v in (rating, rank, date, contest) if v)
Score(rating, rank, date_str, contest) ==
    Bool2Int(TruthyInt(rating)) + Bool2Int(TruthyInt(rank))
        + Bool2Int(TruthyStr(date_str)) + Bool2Int(TruthyStr(contest))

\* position of key in the dict refined_map (a list of entries in insertion
\* order), 0 when absent
MapIndex(refined_map, key) ==
    IF \E i \in 1..Len(refined_map) : refined_map[i].key = key
    THEN CHOOSE i \in 1..Len(refined_map) : refined_map[i].key = key
    ELSE 0

\* "if score <= existing_score: continue"
KeepsExisting(score, existing_score) == score <= existing_score

\* the existing entry stays unless the new score is strictly higher; a
\* replaced key keeps its place in the dict
MergeAt(refined_map, at, entry, score) ==
    IF at = 0 THEN Append(refined_map, entry)
    ELSE IF KeepsExisting(score,
                          Score(refined_map[at].rec.rating, refined_map[at].rec.rank,
                                refined_map[at].rec.date, refined_map[at].rec.contestName))
         THEN refined_map
         ELSE [refined_map EXCEPT ![at] = entry]

MergeKeyed(refined_map, f, iso, key) ==
    MergeAt(refined_map, MapIndex(refined_map, key),
            [key |-> key,
             rec |-> [rating |-> f.rating, date |-> f.date_str, contestName |-> f.contest,
                      rank |-> f.rank, _iso |-> iso]],
            Score(f.rating, f.rank, f.date_str, f.contest))

MergeFields(refined_map, f, iso) ==
    MergeKeyed(refined_map, f, iso, DedupKey(f.date_str, iso, f.contest))

MergeParsed(refined_map, f) == MergeFields(refined_map, f, IsoOf(f.date_str))

\* one iteration of "for item in raw_points"; "if not item: continue" skips
\* an empty dict
RefineStep(refined_map, item) ==
    IF DOMAIN item = {} THEN refined_map
    ELSE MergeParsed(refined_map, ParseItem(item))

RECURSIVE RefineLoop(_, _, _)
RefineLoop(points, k, refined_map) ==
    IF k > Len(points) THEN refined_map
    ELSE RefineLoop(points, k + 1, RefineStep(refined_map, points[k]))

\* a sort key of one tier: the date string as written
SortKeyRawDate(it) ==
    <<1, IF TruthyStr(it.date) THEN Val(it.date) ELSE <<>> >>

\* the sort key: (0, it["_iso"]) if it.get("_iso") else (1, it.get("date") or "")
SortKey(it) ==
    IF TruthyStr(it._iso) THEN <<0, Val(it._iso)>>
    ELSE <<1, IF TruthyStr(it.date) THEN Val(it.date) ELSE <<>> >>

\* a < b for the key tuples
KeyLess(a, b) == a[1] < b[1] \/ (a[1] = b[1] /\ StrLess(a[2], b[2]))

\* list.sort(key=...) is stable: an item goes after every item not greater
RECURSIVE InsertSorted(_, _)
InsertSorted(sorted, it) ==
    IF sorted = <<>> THEN <<it>>
    ELSE IF KeyLess(SortKey(it), SortKey(sorted[1])) THEN <<it>> \o sorted
    ELSE <<sorted[1]>> \o InsertSorted(Tail(sorted), it)

RECURSIVE SortItems(_, _)
SortItems(items, sorted) ==
    IF items = <<>> THEN sorted
    ELSE SortItems(Tail(items), InsertSorted(sorted, items[1]))

\* it.pop("_iso", None)
PopIso(it) ==
    [rating |-> it.rating, date |-> it.date, contestName |-> it.contestName, rank |-> it.rank]

\* refine_points(raw_points): the Series
\* items = list(refined_map.values())
MapValues(refined_map) == [i \in 1..Len(refined_map) |-> refined_map[i].rec]

\* for it in items: it.pop("_iso", None)
PopAll(items) == [i \in 1..Len(items) |-> PopIso(items[i])]

\* a refined_map that outlives the call: it starts from the records of the
\* Series returned last
SharedMap(last) ==
    [i \in 1..Len(last) |->
        [key |-> DedupKey(last[i].date, IsoOf(last[i].date), last[i].contestName),
         rec |-> [rating |-> last[i].rating, date |-> last[i].date,
                  contestName |-> last[i].contestName, rank |-> last[i].rank,
                  _iso |-> IsoOf(last[i].date)]]]

refine_points_shared_map(points) ==
    PopAll(SortItems(MapValues(RefineLoop(points, 1, SharedMap(refined))), <<>>))

refine_points(points) == PopAll(SortItems(MapValues(RefineLoop(points, 1, <<>>)), <<>>))

----------------------------------------------------------------------------
(* Snapshot Reader: what the two page scripts return for a state of the page *)

\* the texts of the panel's four fragments (innerText of the rating span and of
\* the three paragraphs; "" for a fragment that is missing)
PanelDom(ratingText, dateText, contestText, rankText) ==
    Some([ratingText |-> ratingText, dateText |-> dateText, contestText |-> contestText,
          rankText |-> rankText])

\* the texts of the two tooltip elements, None for an element that is missing
TipDom(xaxis, tooltip) == [xaxis |-> xaxis, tooltip |-> tooltip]

\* text || null
OrNull(text) == IF text = <<>> THEN None ELSE Some(text)

\* text.replace(/[^0-9]/g, '') || null, then parseInt
DigitsOrNull(text) == IF DigitsOf(text) = <<>> THEN None ELSE Some(IntOf(DigitsOf(text)))

\* READ_PANEL_JS: None when the container or the header block is missing
\* (dom = None), else the six fields
READ_PANEL_JS(dom) ==
    IF dom = None THEN None
    ELSE LET d == Val(dom)
         IN  Some([ratingText |-> OrNull(Strip(d.ratingText)),
                   rating |-> DigitsOrNull(Strip(d.ratingText)),
                   date |-> OrNull(Strip(d.dateText)),
                   contestName |-> OrNull(Strip(d.contestText)),
                   rankText |-> OrNull(Strip(d.rankText)),
                   rank |-> DigitsOrNull(Strip(d.rankText))])

\* READ_TOOLTIPS_JS: each text trimmed, null for a missing element
READ_TOOLTIPS_JS(dom) ==
    [xaxis |-> IF dom.xaxis = None THEN None ELSE Some(Strip(Val(dom.xaxis))),
     tooltip |-> IF dom.tooltip = None THEN None ELSE Some(Strip(Val(dom.tooltip)))]

\* "if panel and panel.get("contestName")"
PanelValid(p) == p # None /\ TruthyStr(Val(p).contestName)

\* txt = (tips.get("xaxis") or "") + "\n" + (tips.get("tooltip") or "")
TipText(t) ==
    (IF TruthyStr(t.xaxis) THEN Val(t.xaxis) ELSE <<>>) \o <<"\n">>
        \o (IF TruthyStr(t.tooltip) THEN Val(t.tooltip) ELSE <<>>)

\* "if txt.strip()"
TipValid(t) == Strip(TipText(t)) # <<>>

\* {"raw_tooltip": txt.strip()}
TipSnapshot(t) == [raw_tooltip |-> Strip(TipText(t))]

\* the texts of the paragraphs ps[0], ps[1], ps[2] of a panel
ParaTexts(d) == <<d.dateText, d.contestText, d.rankText>>

\* "ps[k] ? ps[k].innerText.trim() : null" (k counted from 1): a paragraph is
\* there when it or a later one has text
ParaText(d, k) ==
    IF \E j \in k..3 : ParaTexts(d)[j] # <<>> THEN Some(Strip(ParaTexts(d)[k])) ELSE None

\* old_date, old_contest = old_snapshot.get(...) if old_snapshot else None
OldField(old_snapshot, field) == IF old_snapshot = None THEN None ELSE Val(old_snapshot)[field]

\* the body of fn_body, once its paragraphs are read: with no old date and no
\* old contest, "!!(dateText || contestText)"; else "!==" on either
PanelDiffers(oldDate, oldContest, dateText, contestText) ==
    IF ~TruthyStr(oldDate) /\ ~TruthyStr(oldContest)
    THEN TruthyStr(dateText) \/ TruthyStr(contestText)
    ELSE dateText # oldDate \/ contestText # oldContest

\* fn_body of wait_for_panel_change on a state of the page: false when the
\* container, the header block or the info block is missing
PanelChanged(old_snapshot, dom) ==
    IF dom = None THEN FALSE
    ELSE PanelDiffers(OldField(old_snapshot, "date"), OldField(old_snapshot, "contestName"),
                      ParaText(Val(dom), 1), ParaText(Val(dom), 2))

----------------------------------------------------------------------------
(* The pages the model samples *)

\* panel states a probe can meet during a sweep
\*   no header block; header with every fragment empty;
\*   "1500" / "01 Jan 2022" / "Weekly 1" / "5"
SweepPanelDoms ==
    { None,
      PanelDom(<<>>, <<>>, <<>>, <<>>),
      PanelDom(<<"1", "5", "0", "0">>, <<"0", "1", " ", "J", "a", "n", " ", "2", "0", "2", "2">>, <<"W", "e", "e", "k", "l", "y", " ", "1">>, <<"5">>) }

\* tooltip states a probe can meet during a sweep
\*   no tooltip element; both empty; x-axis label "5" alone;
\*   x-axis "08 Jan 2022" with tooltip "1600"
SweepTipDoms ==
    { TipDom(None, None),
      TipDom(Some(<<>>), Some(<<>>)),
      TipDom(Some(<<"5">>), None),
      TipDom(Some(<<"0", "8", " ", "J", "a", "n", " ", "2", "0", "2", "2">>), Some(<<"1", "6", "0", "0">>)) }

\* the pages of the whole-request specification: a panel that is missing or
\* shows one contest, no tooltip element
ScrapePanelDoms ==
    { None,
      PanelDom(<<"1", "5", "0", "0">>, <<"0", "1", " ", "J", "a", "n", " ", "2", "0", "2", "2">>, <<"W", "e", "e", "k", "l", "y", " ", "1">>, <<"5">>) }

ScrapeTipDoms ==
    { TipDom(None, None) }

\* the panel states a tab activation can meet, at the baseline read and while
\* it waits:  no header block; a header with every fragment empty;
\*   "1500" / "01 Jan 2022" / "Weekly 1" / "5";  "1550" / "08 Jan 2022" /
\*   "Weekly 2" / no rank;  "1500" / an empty date paragraph / "Weekly 1"
ActivatePanelDoms ==
    { None,
      PanelDom(<<>>, <<>>, <<>>, <<>>),
      PanelDom(<<"1", "5", "0", "0">>, <<"0", "1", " ", "J", "a", "n", " ", "2", "0", "2", "2">>, <<"W", "e", "e", "k", "l", "y", " ", "1">>, <<"5">>),
      PanelDom(<<"1", "5", "5", "0">>, <<"0", "8", " ", "J", "a", "n", " ", "2", "0", "2", "2">>, <<"W", "e", "e", "k", "l", "y", " ", "2">>, <<>>),
      PanelDom(<<"1", "5", "0", "0">>, <<>>, <<"W", "e", "e", "k", "l", "y", " ", "1">>, <<>>) }

\* snapshots a sweep can return, the inputs of the reconciler's specification
RefinePool ==
    { \* panel: Weekly 1, 01 Jan 2022, rating 1500, no rank
      Val(READ_PANEL_JS(PanelDom(<<"1", "5", "0", "0">>, <<"0", "1", " ", "J", "a", "n", " ", "2", "0", "2", "2">>, <<"W", "e", "e", "k", "l", "y", " ", "1">>, <<>>))),
      \* the same with rank 5
      Val(READ_PANEL_JS(PanelDom(<<"1", "5", "0", "0">>, <<"0", "1", " ", "J", "a", "n", " ", "2", "0", "2", "2">>, <<"W", "e", "e", "k", "l", "y", " ", "1">>, <<"5">>))),
      \* the same with rank 0
      Val(READ_PANEL_JS(PanelDom(<<"1", "5", "0", "0">>, <<"0", "1", " ", "J", "a", "n", " ", "2", "0", "2", "2">>, <<"W", "e", "e", "k", "l", "y", " ", "1">>, <<"0">>))),
      \* panel: Weekly 2, 08 Jan 2022, rating 1550, no rank
      Val(READ_PANEL_JS(PanelDom(<<"1", "5", "5", "0">>, <<"0", "8", " ", "J", "a", "n", " ", "2", "0", "2", "2">>, <<"W", "e", "e", "k", "l", "y", " ", "2">>, <<>>))),
      \* panel: Weekly 2, 2022-01-08, no rating, rank 7
      Val(READ_PANEL_JS(PanelDom(<<>>, <<"2", "0", "2", "2", "-", "0", "1", "-", "0", "8">>, <<"W", "e", "e", "k", "l", "y", " ", "2">>, <<"7">>))),
      \* panel: Weekly 3, 01 Feb 2022, rating 0, rank 9
      Val(READ_PANEL_JS(PanelDom(<<"0">>, <<"0", "1", " ", "F", "e", "b", " ", "2", "0", "2", "2">>, <<"W", "e", "e", "k", "l", "y", " ", "3">>, <<"9">>))),
      \* panel: Weekly 3, date "soon", rating 1600, no rank
      Val(READ_PANEL_JS(PanelDom(<<"1", "6", "0", "0">>, <<"s", "o", "o", "n">>, <<"W", "e", "e", "k", "l", "y", " ", "3">>, <<>>))),
      \* panel: Weekly 3, no date, rating 1600, rank 2
      Val(READ_PANEL_JS(PanelDom(<<"1", "6", "0", "0">>, <<>>, <<"W", "e", "e", "k", "l", "y", " ", "3">>, <<"2">>))),
      \* tooltip "Rank 120\n1600\nWeekly Contest 300\n08 Jan 2022"
      TipSnapshot(READ_TOOLTIPS_JS(TipDom(None, Some(<<"R", "a", "n", "k", " ", "1", "2", "0", "\n", "1", "6", "0", "0", "\n", "W", "e", "e", "k", "l", "y", " ", "C", "o", "n", "t", "e", "s", "t", " ", "3", "0", "0", "\n", "0", "8", " ", "J", "a", "n", " ", "2", "0", "2", "2">>)))),
      \* tooltip "ab"
      TipSnapshot(READ_TOOLTIPS_JS(TipDom(None, Some(<<"a", "b">>)))),
      \* tooltip "1500"
      TipSnapshot(READ_TOOLTIPS_JS(TipDom(None, Some(<<"1", "5", "0", "0">>)))),
      \* tooltip "Rank 3\nRank 9"
      TipSnapshot(READ_TOOLTIPS_JS(TipDom(None, Some(<<"R", "a", "n", "k", " ", "3", "\n", "R", "a", "n", "k", " ", "9">>)))),
      \* tooltip "Rank 0\n1600"
      TipSnapshot(READ_TOOLTIPS_JS(TipDom(None, Some(<<"R", "a", "n", "k", " ", "0", "\n", "1", "6", "0", "0">>)))) }

----------------------------------------------------------------------------
(* Sweep Planner: the coordinates of synthetic_svg_sweep *)

PLATFORMS ==
    << <<"LeetCode", "leetcode_rating">>,
       <<"CodeChef", "codechef_rating">>,
       <<"CodeForces", "codeforces_rating">>,
       <<"GeeksForGeeks", "GeeksForGeeks_rating">>,
       <<"AtCoder", "AtCoder_rating">>,
       <<"CodeStudio", "codestudio_rating">> >>

PlatformKeys == {PLATFORMS[i][2] : i \in 1..Len(PLATFORMS)}

\* The number of X steps of a sweep.  The program sets 220; the model runs the
\* same loop over fewer steps.
X_STEPS == 2

Y_SWEEP_PIXELS == 80

Y_SWEEP_STEP == 12

\* the boxes svg.bounding_box() can give: None for an element that is not
\* rendered, else x, y, width, height (whole pixels)
BoxPool ==
    { None,
      Some([x |-> 10, y |-> 20, width |-> 0, height |-> 100]),
      Some([x |-> 10, y |-> 20, width |-> 300, height |-> 0]),
      Some([x |-> 10, y |-> 20, width |-> 100, height |-> 100]),
      Some([x |-> 10, y |-> 20, width |-> 300, height |-> 101]),
      Some([x |-> 10, y |-> 20, width |-> 6, height |-> 100]),
      Some([x |-> 7, y |-> 20, width |-> 320, height |-> 60]) }

\* list(range(a, b, step)) for step > 0
RECURSIVE Range(_, _, _)
Range(a, b, step) == IF a >= b THEN <<>> ELSE <<a>> \o Range(a + step, b, step)

\* center_y = int(top + height * 0.5)
CenterY(b) == (2 * b.y + b.height) \div 2

\* half = Y_SWEEP_PIXELS // 2
Half == Y_SWEEP_PIXELS \div 2

\* y_positions = [center_y + offset for offset in range(-half, half+1, Y_SWEEP_STEP)]
AddEach(c, offsets) == [k \in 1..Len(offsets) |-> c + offsets[k]]

YPositions(b) == AddEach(CenterY(b), Range(-Half, Half + 1, Y_SWEEP_STEP))

\* round(p / q) for q > 0, p >= 0 or p < 0: to the nearest integer, a tie to
\* the even one
RoundHalfEven(p, q) ==
    LET fl == p \div q
        r2 == 2 * (p - fl * q)
    IN  IF r2 < q THEN fl
        ELSE IF r2 > q THEN fl + 1
        ELSE IF fl % 2 = 0 THEN fl ELSE fl + 1

\* the X coordinates without the padding: from the left edge to the right edge
XAtNoPad(b, i) ==
    IF X_STEPS > 1
    THEN RoundHalfEven(b.x * (X_STEPS - 1) + b.width * i, X_STEPS - 1)
    ELSE RoundHalfEven(2 * b.x + b.width, 2)

\* x = int(round(start_x + (end_x - start_x) * t)), t = i / (X_STEPS - 1), or
\* 0.5 when X_STEPS is 1; with pad_x = max(4, width * 0.02), start_x = left +
\* pad_x and end_x = left + width - pad_x.  Computed exactly, in units of 1/50.
XAt(b, i) ==
    LET pad50 == IF 200 >= b.width THEN 200 ELSE b.width
        start50 == 50 * b.x + pad50
        end50 == 50 * (b.x + b.width) - pad50
    IN  IF X_STEPS > 1
        THEN RoundHalfEven(start50 * (X_STEPS - 1) + (end50 - start50) * i, 50 * (X_STEPS - 1))
        ELSE RoundHalfEven(start50 + end50, 100)

----------------------------------------------------------------------------
(* The coroutine: scrape_codolio and, inlined at its call, synthetic_svg_sweep *)

Key == PLATFORMS[pi][2]

\* the statements that await the page and so can raise
RaisingPcs == {"goto", "baseline", "sweep_query", "sweep_box", "dispatch", "read_panel", "read_tips"}

\* where control is: the request before the platform loop, the platform loop
\* outside the sweep, or the sweep
Stage(at) ==
    IF at = "goto" THEN "navigation"
    ELSE IF at \in {"sweep_query", "sweep_box", "dispatch", "pause", "read_panel", "read_tips"}
    THEN "sweep" ELSE "platform"

\* what has happened so far: the statement that raised; the result of the last
\* click_platform_locator; the page read as baseline, the page the last wait
\* ended on and how it ended ("changed", "timeout" or "error")
NoHist ==
    [raised |-> "none", raised_at |-> "none", clicked |-> "none", base |-> None,
     polled |-> None, waited |-> "none"]

\* the record of a platform's activation, before its click
NoActivation(h, clicked) ==
    [h EXCEPT !.clicked = clicked, !.base = None, !.polled = None, !.waited = "none"]

Init ==
    /\ pc = "goto"
    /\ pi = 1
    /\ old_panel = None
    /\ box = None
    /\ xi = 0
    /\ yi = 1
    /\ probe = None
    /\ panel = None
    /\ tips = TipDom(None, None)
    /\ snapshots = <<>>
    /\ refined = <<>>
    /\ contestRankings = [k \in PlatformKeys |-> None]
    /\ response = "pending"
    /\ hist = NoHist

\* await page.goto(...), then the scraping of the static statistics
Goto ==
    /\ pc = "goto"
    /\ pc' = "click"
    /\ UNCHANGED <<pi, old_panel, box, xi, yi, probe, panel, tips, snapshots, refined,
                   contestRankings, response, hist>>

\* an awaited page call raises: control leaves for the handler of scrape_codolio
Raise ==
    /\ pc \in RaisingPcs
    /\ pc' = "except"
    /\ hist' = [hist EXCEPT !.raised = Stage(pc), !.raised_at = pc]
    /\ UNCHANGED <<pi, old_panel, box, xi, yi, probe, panel, tips, snapshots, refined,
                   contestRankings, response>>

\* a loop that ends at its first platform
AfterPlatformStop(i) == [pc |-> "close", pi |-> i]

\* the end of one iteration of "for platform_name, key in PLATFORMS"
AfterPlatform(i) ==
    IF i < Len(PLATFORMS) THEN [pc |-> "click", pi |-> i + 1] ELSE [pc |-> "close", pi |-> i]

\* clicked = await click_platform_locator(...); the else branch stores []
Click ==
    /\ pc = "click"
    /\ \E clicked \in BOOLEAN :
          IF clicked
          THEN /\ pc' = "baseline"
               /\ hist' = NoActivation(hist, "yes")
               /\ UNCHANGED <<pi, contestRankings>>
          ELSE /\ contestRankings' = [contestRankings EXCEPT ![Key] = Some(<<>>)]
               /\ hist' = NoActivation(hist, "no")
               /\ pc' = AfterPlatform(pi).pc
               /\ pi' = AfterPlatform(pi).pi
    /\ UNCHANGED <<old_panel, box, xi, yi, probe, panel, tips, snapshots, refined, response>>

\* old_panel = await page.evaluate(READ_PANEL_JS, CONTAINER_SELECTOR)
Baseline(doms) ==
    /\ pc = "baseline"
    /\ \E dom \in doms :
          /\ old_panel' = READ_PANEL_JS(dom)
          /\ hist' = [hist EXCEPT !.base = Some(dom)]
    /\ pc' = "wait"
    /\ UNCHANGED <<pi, box, xi, yi, probe, panel, tips, snapshots, refined, contestRankings,
                   response>>

\* how page.wait_for_function can end on a page that is in state dom when it
\* ends: it resolves when fn_body is true of the page, times out when it is
\* not, or raises for another reason
WaitOutcomes(old_snapshot, dom) ==
    {"error"} \cup (IF PanelChanged(old_snapshot, dom) THEN {"changed"} ELSE {"timeout"})

\* a wait whose False ends the platform without a sweep
AfterWaitGivesUp(outcome) == IF outcome = "changed" THEN "settle" ELSE "store"

\* where scrape_codolio goes after the wait: True or False, the value is not used
AfterWait(outcome) == "settle"

\* await wait_for_panel_change(page, old_panel): True, or False on a timeout or
\* an error ("except: return False")
WaitForPanelChange(doms) ==
    /\ pc = "wait"
    /\ \E dom \in doms :
          \E outcome \in WaitOutcomes(old_panel, dom) :
              /\ hist' = [hist EXCEPT !.polled = Some(dom), !.waited = outcome]
              /\ pc' = AfterWait(outcome)
    /\ UNCHANGED <<pi, old_panel, box, xi, yi, probe, panel, tips, snapshots, refined,
                   contestRankings, response>>

\* await asyncio.sleep(0.5), then the call of synthetic_svg_sweep; the pages of
\* the wait are behind
Settle ==
    /\ pc = "settle"
    /\ pc' = "sweep_query"
    /\ hist' = [hist EXCEPT !.base = None, !.polled = None]
    /\ UNCHANGED <<pi, old_panel, box, xi, yi, probe, panel, tips, snapshots, refined,
                   contestRankings, response>>

\* svg = await page.query_selector(...); "if not svg: return []"
SweepQuery ==
    /\ pc = "sweep_query"
    /\ \E found \in BOOLEAN : pc' = IF found THEN "sweep_box" ELSE "refine"
    /\ snapshots' = <<>>
    /\ UNCHANGED <<pi, old_panel, box, xi, yi, probe, panel, tips, refined, contestRankings,
                   response, hist>>

\* "if not box: return []": a dict with its four keys is truthy whatever its numbers
BoxUsable(b) == b # None

\* box = await svg.bounding_box(); "if not box: return []"; the plan; snapshots = []
SweepBox ==
    /\ pc = "sweep_box"
    /\ \E b \in BoxPool :
          /\ box' = b
          /\ pc' = IF BoxUsable(b) /\ X_STEPS > 0 THEN "dispatch" ELSE "refine"
    /\ xi' = 0
    /\ yi' = 1
    /\ snapshots' = <<>>
    /\ UNCHANGED <<pi, old_panel, probe, panel, tips, refined, contestRankings, response, hist>>

\* await dispatch_event_at(page, x, y)
Dispatch ==
    /\ pc = "dispatch"
    /\ probe' = Some(<<XAt(Val(box), xi), YPositions(Val(box))[yi]>>)
    /\ pc' = "pause"
    /\ UNCHANGED <<pi, old_panel, box, xi, yi, panel, tips, snapshots, refined, contestRankings,
                   response, hist>>

\* a probe whose reads are not waited for: the next probe is dispatched at once
PauseNoRead ==
    /\ pc = "pause"
    /\ pc' = "dispatch"
    /\ yi' = IF yi < Len(YPositions(Val(box))) THEN yi + 1 ELSE yi
    /\ UNCHANGED <<pi, old_panel, box, xi, probe, panel, tips, snapshots, refined,
                   contestRankings, response, hist>>

\* await asyncio.sleep(EVENT_PAUSE)
Pause ==
    /\ pc = "pause"
    /\ pc' = "read_panel"
    /\ UNCHANGED <<pi, old_panel, box, xi, yi, probe, panel, tips, snapshots, refined,
                   contestRankings, response, hist>>

\* the inner loop without its "break": after a hit the fan of this X goes on
AfterHitNoBreak(i, k) ==
    IF k < Len(Range(-Half, Half + 1, Y_SWEEP_STEP))
    THEN [pc |-> "dispatch", xi |-> i, yi |-> k + 1]
    ELSE IF i + 1 < X_STEPS THEN [pc |-> "dispatch", xi |-> i + 1, yi |-> 1]
    ELSE [pc |-> "refine", xi |-> i, yi |-> k]

\* where the loops go after "break": the next X, or the return when X is exhausted
AfterHit(i, k) ==
    IF i + 1 < X_STEPS THEN [pc |-> "dispatch", xi |-> i + 1, yi |-> 1]
    ELSE [pc |-> "refine", xi |-> i, yi |-> k]

\* where the loops go after a probe without a snapshot: the next Y of the fan,
\* or what follows the fan
AfterMiss(i, k, nY) ==
    IF k < nY THEN [pc |-> "dispatch", xi |-> i, yi |-> k + 1] ELSE AfterHit(i, k)

\* panel = await page.evaluate(READ_PANEL_JS, ...); a valid panel is appended
\* and ends the fan of this X
ReadPanel(doms) ==
    /\ pc = "read_panel"
    /\ \E dom \in doms :
          LET p == READ_PANEL_JS(dom)
          IN  /\ panel' = p
              /\ IF PanelValid(p)
                 THEN /\ snapshots' = Append(snapshots, Val(p))
                      /\ pc' = AfterHit(xi, yi).pc
                      /\ xi' = AfterHit(xi, yi).xi
                      /\ yi' = AfterHit(xi, yi).yi
                 ELSE /\ pc' = "read_tips"
                      /\ UNCHANGED <<snapshots, xi, yi>>
    /\ UNCHANGED <<pi, old_panel, box, probe, tips, refined, contestRankings, response, hist>>

\* tips = await page.evaluate(READ_TOOLTIPS_JS); a non-empty text is appended
\* and ends the fan of this X, else the next Y is probed
ReadTips(doms) ==
    /\ pc = "read_tips"
    /\ \E dom \in doms :
          LET t == READ_TOOLTIPS_JS(dom)
              nY == Len(YPositions(Val(box)))
          IN  /\ tips' = t
              /\ IF TipValid(t)
                 THEN /\ snapshots' = Append(snapshots, TipSnapshot(t))
                      /\ pc' = AfterHit(xi, yi).pc
                      /\ xi' = AfterHit(xi, yi).xi
                      /\ yi' = AfterHit(xi, yi).yi
                 ELSE /\ snapshots' = snapshots
                      /\ pc' = AfterMiss(xi, yi, nY).pc
                      /\ xi' = AfterMiss(xi, yi, nY).xi
                      /\ yi' = AfterMiss(xi, yi, nY).yi
    /\ UNCHANGED <<pi, old_panel, box, probe, panel, refined, contestRankings, response, hist>>

\* refined = refine_points(snapshots); the sweep has returned and its locals
\* (box, i, y, panel, tips) are gone
Refine ==
    /\ pc = "refine"
    /\ refined' = refine_points(snapshots)
    /\ pc' = "store"
    /\ box' = None
    /\ xi' = 0
    /\ yi' = 1
    /\ probe' = None
    /\ panel' = None
    /\ tips' = TipDom(None, None)
    /\ UNCHANGED <<pi, old_panel, snapshots, contestRankings, response, hist>>

\* data["contestRankings"][key] = refined
Store ==
    /\ pc = "store"
    /\ contestRankings' = [contestRankings EXCEPT ![Key] = Some(refined)]
    /\ pc' = AfterPlatform(pi).pc
    /\ pi' = AfterPlatform(pi).pi
    /\ UNCHANGED <<old_panel, box, xi, yi, probe, panel, tips, snapshots, refined, response, hist>>

\* await browser.close(); return data
Close ==
    /\ pc = "close"
    /\ response' = "ok"
    /\ pc' = "done"
    /\ UNCHANGED <<pi, old_panel, box, xi, yi, probe, panel, tips, snapshots, refined,
                   contestRankings, hist>>

\* except Exception: ... raise HTTPException(status_code=500, ...)
Except ==
    /\ pc = "except"
    /\ response' = "http500"
    /\ pc' = "done"
    /\ UNCHANGED <<pi, old_panel, box, xi, yi, probe, panel, tips, snapshots, refined,
                   contestRankings, hist>>

\* One profile request, on pages of ScrapePanelDoms and ScrapeTipDoms.
Next ==
    \/ Goto
    \/ Raise
    \/ Click
    \/ Baseline(ScrapePanelDoms)
    \/ WaitForPanelChange(ScrapePanelDoms)
    \/ Settle
    \/ SweepQuery
    \/ SweepBox
    \/ Dispatch
    \/ Pause
    \/ ReadPanel(ScrapePanelDoms)
    \/ ReadTips(ScrapeTipDoms)
    \/ Refine
    \/ Store
    \/ Close
    \/ Except

Spec == Init /\ [][Next]_vars

----------------------------------------------------------------------------
(* One sweep on its own, on pages of SweepPanelDoms and SweepTipDoms *)

InitSweep ==
    /\ pc = "sweep_query"
    /\ pi = 1
    /\ old_panel = None
    /\ box = None
    /\ xi = 0
    /\ yi = 1
    /\ probe = None
    /\ panel = None
    /\ tips = TipDom(None, None)
    /\ snapshots = <<>>
    /\ refined = <<>>
    /\ contestRankings = [k \in PlatformKeys |-> None]
    /\ response = "pending"
    /\ hist = NoHist

NextSweep ==
    \/ Raise
    \/ SweepQuery
    \/ SweepBox
    \/ Dispatch
    \/ Pause
    \/ ReadPanel(SweepPanelDoms)
    \/ ReadTips(SweepTipDoms)
    \/ Refine

SpecSweep == InitSweep /\ [][NextSweep]_vars

----------------------------------------------------------------------------
(* The last platform of a request on its own, from its click on, on pages of *)
(* ActivatePanelDoms; the clicks of the platforms before it have failed      *)

InitActivate ==
    /\ pc = "click"
    /\ pi = Len(PLATFORMS)
    /\ old_panel = None
    /\ box = None
    /\ xi = 0
    /\ yi = 1
    /\ probe = None
    /\ panel = None
    /\ tips = TipDom(None, None)
    /\ snapshots = <<>>
    /\ refined = <<>>
    /\ contestRankings =
          [k \in PlatformKeys |-> IF k = PLATFORMS[Len(PLATFORMS)][2] THEN None ELSE Some(<<>>)]
    /\ response = "pending"
    /\ hist = NoActivation(NoHist, "no")

NextActivate ==
    \/ Raise
    \/ Click
    \/ Baseline(ActivatePanelDoms)
    \/ WaitForPanelChange(ActivatePanelDoms)
    \/ Settle
    \/ SweepQuery
    \/ SweepBox
    \/ Dispatch
    \/ Pause
    \/ ReadPanel(ScrapePanelDoms)
    \/ ReadTips(ScrapeTipDoms)
    \/ Refine
    \/ Store
    \/ Close
    \/ Except

SpecActivate == InitActivate /\ [][NextActivate]_vars

\* wait_for_function is bounded by its timeout and the settle sleep by its
\* delay: the event loop resumes the coroutine after each of them
FairActivate ==
    SpecActivate /\ WF_vars(WaitForPanelChange(ActivatePanelDoms)) /\ WF_vars(Settle)

----------------------------------------------------------------------------
(* The reconciler on its own: refine_points on every list of at most        *)
(* MaxPoints snapshots of RefinePool                                        *)

MaxPoints == 3

BoundedSeqs(S, n) == UNION {[1..k -> S] : k \in 0..n}

InitRefine ==
    /\ pc = "refine"
    /\ pi = 1
    /\ old_panel = None
    /\ box = None
    /\ xi = 0
    /\ yi = 1
    /\ probe = None
    /\ panel = None
    /\ tips = TipDom(None, None)
    /\ snapshots \in BoundedSeqs(RefinePool, MaxPoints)
    /\ refined = <<>>
    /\ contestRankings = [k \in PlatformKeys |-> None]
    /\ response = "pending"
    /\ hist = NoHist

NextRefine == Refine

SpecRefine == InitRefine /\ [][NextRefine]_vars

----------------------------------------------------------------------------
(* What the claims speak of *)

\* the Record a candidate snapshot parses to
CandidateRecord(item) ==
    [rating |-> ParseItem(item).rating, date |-> ParseItem(item).date_str,
     contestName |-> ParseItem(item).contest, rank |-> ParseItem(item).rank]

\* the number of non-null fields among rating, rank, date, contestName
NonNullScore(r) ==
    Bool2Int(r.rating # None) + Bool2Int(r.rank # None) + Bool2Int(r.date # None)
        + Bool2Int(r.contestName # None)

\* the dedup key of a Record: the ISO date when the date string parses, else
\* the raw date string, else ""; with the trimmed contest name, or ""
RecordKey(r) ==
    << IF try_parse_date(r.date) # None THEN isoformat(Val(try_parse_date(r.date)))
       ELSE IF r.date # None THEN Val(r.date) ELSE <<>>,
       IF r.contestName # None THEN Strip(Val(r.contestName)) ELSE <<>> >>

Dated(r) == try_parse_date(r.date) # None

RawDate(r) == IF r.date # None THEN Val(r.date) ELSE <<>>

\* calendar order of two dates <<y, m, d>>
DateLeq(a, b) ==
    \/ a[1] < b[1]
    \/ a[1] = b[1] /\ a[2] < b[2]
    \/ a[1] = b[1] /\ a[2] = b[2] /\ a[3] <= b[3]

\* the reconciler has run on the list in snapshots and its result is in refined
Reconciled == pc = "store"

InFan == pc \in {"dispatch", "pause", "read_panel", "read_tips"}

ZeroArea(b) == b # None /\ (Val(b).width = 0 \/ Val(b).height = 0)

----------------------------------------------------------------------------
(* C1 *)

C1Snapshot ==
    [raw_tooltip |-> <<"R", "a", "n", "k", " ", "1", "2", "0", "\n", "1", "6", "0", "0", "\n", "W", "e", "e", "k", "l", "y", " ", "C", "o", "n", "t", "e", "s", "t", " ", "3", "0", "0", "\n", "0", "8", " ", "J", "a", "n", " ", "2", "0", "2", "2">>]

\* C1: the tooltip snapshot "Rank 120", "1600", "Weekly Contest 300",
\* "08 Jan 2022" parses to rank 120, rating 1600, contestName "Weekly Contest
\* 300", date "08 Jan 2022".
C1_TooltipScenario ==
    (Reconciled /\ snapshots = <<C1Snapshot>>) =>
        refined = << [rating |-> Some(1600),
                      date |-> Some(<<"0", "8", " ", "J", "a", "n", " ", "2", "0", "2", "2">>),
                      contestName |-> Some(<<"W", "e", "e", "k", "l", "y", " ", "C", "o", "n", "t", "e", "s", "t", " ", "3", "0", "0">>),
                      rank |-> Some(120)] >>

----------------------------------------------------------------------------
(* C2 *)

\* C2: every record of the Series has at least one of rating, date,
\* contestName, rank non-null; a candidate from which no field was parsed is
\* not in the output.
C2_NoEmptyRecord ==
    Reconciled =>
        \A i \in 1..Len(refined) :
            \/ refined[i].rating # None
            \/ refined[i].date # None
            \/ refined[i].contestName # None
            \/ refined[i].rank # None

----------------------------------------------------------------------------
(* C3 *)

\* the candidates (indices into snapshots) that have the dedup key of candidate i
SameKey(i) ==
    {j \in 1..Len(snapshots) :
        RecordKey(CandidateRecord(snapshots[j])) = RecordKey(CandidateRecord(snapshots[i]))}

\* the earliest candidate with the highest score among those with i's key
BestOf(i) ==
    CHOOSE j \in SameKey(i) :
        \A k \in SameKey(i) :
            \/ NonNullScore(CandidateRecord(snapshots[k])) < NonNullScore(CandidateRecord(snapshots[j]))
            \/ NonNullScore(CandidateRecord(snapshots[k])) = NonNullScore(CandidateRecord(snapshots[j]))
               /\ j <= k

\* C3: the record kept for a key is the candidate with the highest score (the
\* number of non-null fields) among the candidates with that key, the
\* earliest-seen among equally scored ones; of two candidates that are the
\* same but for rank, which only one has, only the one with rank is in the
\* output, in either order.
C3_KeepsBestEarliest ==
    Reconciled =>
        /\ \A i \in 1..Len(snapshots) :
              \E n \in 1..Len(refined) :
                  /\ refined[n] = CandidateRecord(snapshots[BestOf(i)])
                  /\ \A m \in 1..Len(refined) :
                        RecordKey(refined[m]) = RecordKey(refined[n]) => m = n
        /\ \A a, b \in 1..Len(snapshots) :
              ( /\ Len(snapshots) = 2
                /\ CandidateRecord(snapshots[a]).date = CandidateRecord(snapshots[b]).date
                /\ CandidateRecord(snapshots[a]).contestName = CandidateRecord(snapshots[b]).contestName
                /\ CandidateRecord(snapshots[a]).rating = CandidateRecord(snapshots[b]).rating
                /\ CandidateRecord(snapshots[a]).rank # None
                /\ CandidateRecord(snapshots[b]).rank = None )
              => refined = <<CandidateRecord(snapshots[a])>>

----------------------------------------------------------------------------
(* C4 *)

\* C4: for two candidates A, B that share a dedup key and differ in score (the
\* number of non-null fields), reconciling [A, B] and [B, A] gives the same
\* Series.
C4_OrderIndependent ==
    ( /\ Reconciled
      /\ Len(snapshots) = 2
      /\ RecordKey(CandidateRecord(snapshots[1])) = RecordKey(CandidateRecord(snapshots[2]))
      /\ NonNullScore(CandidateRecord(snapshots[1])) # NonNullScore(CandidateRecord(snapshots[2])) )
    => refined = refine_points(<<snapshots[2], snapshots[1]>>)

----------------------------------------------------------------------------
(* C5 *)

\* C5: no two records of the Series have the same dedup key (ISO date when the
\* date parses, else raw date string, else ""; trimmed contest name or "").
C5_NoDuplicateKey ==
    Reconciled =>
        \A i, j \in 1..Len(refined) :
            RecordKey(refined[i]) = RecordKey(refined[j]) => i = j

\* two candidates whose date strings differ share a key, and the Series still
\* has records of two keys
C5_Witness ==
    /\ Reconciled
    /\ Len(refined) >= 2
    /\ \E i, j \in 1..Len(snapshots) :
          /\ RecordKey(CandidateRecord(snapshots[i])) = RecordKey(CandidateRecord(snapshots[j]))
          /\ CandidateRecord(snapshots[i]).date # CandidateRecord(snapshots[j]).date

----------------------------------------------------------------------------
(* C6 *)

\* C6: the Series is two-tiered: the records whose date parses come first, in
\* non-decreasing calendar order; the records whose date is missing or does
\* not parse come after all of them, by raw date string ascending, the empty
\* one first.  Two panel candidates dated 01 Jan 2022 and 08 Jan 2022 come out
\* as two records, 01 Jan first, in whichever order they were probed.
C6_TwoTierOrder ==
    Reconciled =>
        /\ \A i, j \in 1..Len(refined) :
              i < j =>
                /\ (Dated(refined[i]) /\ Dated(refined[j])) =>
                      DateLeq(Val(try_parse_date(refined[i].date)),
                              Val(try_parse_date(refined[j].date)))
                /\ ~Dated(refined[i]) => ~Dated(refined[j])
                /\ (~Dated(refined[i]) /\ ~Dated(refined[j])) =>
                      ~StrLess(RawDate(refined[j]), RawDate(refined[i]))
        /\ ( /\ Len(snapshots) = 2
             /\ \A k \in 1..2 : "contestName" \in DOMAIN snapshots[k]
             /\ {snapshots[1].date, snapshots[2].date}
                    = {Some(<<"0", "1", " ", "J", "a", "n", " ", "2", "0", "2", "2">>), Some(<<"0", "8", " ", "J", "a", "n", " ", "2", "0", "2", "2">>)} )
           => ( /\ Len(refined) = 2
                /\ refined[1].date = Some(<<"0", "1", " ", "J", "a", "n", " ", "2", "0", "2", "2">>)
                /\ refined[2].date = Some(<<"0", "8", " ", "J", "a", "n", " ", "2", "0", "2", "2">>) )

\* three candidates, probed with an undated one first and the later date
\* before the earlier, come out as two dated records and then the undated one
C6_Witness ==
    /\ Reconciled
    /\ Len(snapshots) = 3
    /\ Len(refined) = 3
    /\ ~Dated(CandidateRecord(snapshots[1]))
    /\ CandidateRecord(snapshots[2]) = refined[2]
    /\ CandidateRecord(snapshots[3]) = refined[1]
    /\ Dated(refined[1]) /\ Dated(refined[2]) /\ ~Dated(refined[3])
    /\ refined[1].date # refined[2].date

----------------------------------------------------------------------------
(* C7 *)

\* C7: with a bounding box of zero width or zero height the sweep dispatches no
\* probe and retains no snapshot.
C7_ZeroAreaNoProbes ==
    ZeroArea(box) => (~InFan /\ probe = None /\ snapshots = <<>>)

----------------------------------------------------------------------------
(* C8 *)

\* C8: at most one snapshot is retained per X step: while the fan of X step xi
\* (counted from 0) is being probed, every retained snapshot comes from an
\* earlier X step, so a hit ends the fan of its X; the number of snapshots
\* never exceeds the number of X steps started, nor X_STEPS.
C8_OneSnapshotPerX ==
    /\ InFan => (Len(snapshots) <= xi /\ xi < X_STEPS)
    /\ pc = "refine" => Len(snapshots) <= xi + 1
    /\ Len(snapshots) <= X_STEPS

\* a sweep that ends with one snapshot for every X step, a panel one and a
\* tooltip one among them
C8_Witness ==
    /\ pc = "refine"
    /\ Len(snapshots) = X_STEPS
    /\ \E i, j \in 1..Len(snapshots) :
          "contestName" \in DOMAIN snapshots[i] /\ "raw_tooltip" \in DOMAIN snapshots[j]

----------------------------------------------------------------------------
(* C9 *)

\* C9: the panel has priority: the tooltip is read only after a panel read
\* without contest name, and a valid panel is the snapshot retained; a tooltip
\* snapshot is retained (in a sweep of a box with an area) only if its text is
\* longer than one character after trimming.
C9_PanelFirstTooltipNonTrivial ==
    /\ pc = "read_tips" => ~PanelValid(panel)
    /\ (InFan /\ PanelValid(panel)) =>
          (snapshots # <<>> /\ snapshots[Len(snapshots)] = Val(panel))
    /\ (box # None /\ ~ZeroArea(box)) =>
          \A i \in 1..Len(snapshots) :
              "raw_tooltip" \in DOMAIN snapshots[i] => Len(Strip(snapshots[i].raw_tooltip)) > 1

----------------------------------------------------------------------------
(* C10 *)

\* C10: an exception raised inside the sweep of one platform does not make the
\* request fail: the request then ends with the normal answer and a Series for
\* each of the platforms, never with HTTP 500.
C10_SweepFailureAbsorbed ==
    /\ hist.raised = "sweep" => response # "http500"
    /\ (hist.raised = "sweep" /\ pc = "done") =>
          (response = "ok" /\ \A k \in PlatformKeys : contestRankings[k] # None)

----------------------------------------------------------------------------
(* C11 *)

\* the key of the platform whose iteration ended last
LastKey == IF pc = "click" THEN PLATFORMS[pi - 1][2] ELSE Key

C11_AfterFailedClick ==
    hist.clicked = "no" =>
        /\ pc \in {"click", "close", "done"}
        /\ contestRankings[LastKey] = Some(<<>>)
        /\ hist.raised = "none"
        /\ response # "http500"

C11_OneSeriesPerKey ==
    response = "ok" =>
        /\ DOMAIN contestRankings = PlatformKeys
        /\ \A k \in PlatformKeys : contestRankings[k] # None

C11_NoSweepOnFailedClick ==
    (pc = "click" /\ hist'.clicked = "no") =>
        /\ UNCHANGED <<snapshots, refined, probe, box, old_panel>>
        /\ pc' = (IF pi < Len(PLATFORMS) THEN "click" ELSE "close")
        /\ pi' = (IF pi < Len(PLATFORMS) THEN pi + 1 ELSE pi)

\* C11: when click_platform_locator returns false the platform's Series is the
\* empty list, no sweep runs for it, nothing is raised and the loop goes on to
\* the next platform; a request that returns normally has one Series for each
\* of the six platform keys.
C11_FailedClickEmptySeries ==
    /\ [](C11_AfterFailedClick /\ C11_OneSeriesPerKey)
    /\ [][C11_NoSweepOnFailedClick]_vars

\* a request that has returned normally, whose last click failed and which has
\* a Series with a record for another platform
C11_Witness ==
    /\ response = "ok"
    /\ hist.clicked = "no"
    /\ contestRankings[PLATFORMS[Len(PLATFORMS)][2]] = Some(<<>>)
    /\ \E k \in PlatformKeys : contestRankings[k] # None /\ contestRankings[k] # Some(<<>>)

----------------------------------------------------------------------------
(* C12 *)

\* the probe whose dispatch, settle delay or reads are under way is the one
\* dispatched last
C12_ReadsOwnProbe ==
    pc \in {"pause", "read_panel", "read_tips"} =>
        probe = Some(<<XAt(Val(box), xi), YPositions(Val(box))[yi]>>)

\* a probe is dispatched only as the first of its sweep or after the panel or
\* tooltip read of the probe before it; a dispatched probe goes through its
\* settle delay and its panel read
C12_ProbeAfterRead ==
    /\ (pc' = "dispatch" /\ pc # "dispatch") => pc \in {"sweep_box", "read_panel", "read_tips"}
    /\ pc = "dispatch" => pc' \in {"pause", "except"}
    /\ pc = "pause" => pc' = "read_panel"

\* a platform is activated only at the start, after a failed click, or after
\* the Series of the platform before it is stored; the platform changes at no
\* other step; a sweep starts only after its platform's settle delay
C12_PlatformAfterStore ==
    /\ pc' = "click" => pc \in {"goto", "click", "store"}
    /\ pi' # pi => (pc \in {"click", "store"} /\ pc' = "click" /\ pi' = pi + 1)
    /\ pc' = "sweep_query" => pc = "settle"
    /\ pc' = "store" => pc = "refine"

\* C12: probing is strictly sequential: probe N+1 is not dispatched before the
\* settle delay and the read of probe N are over, and platform N+1 is not
\* activated before the sweep and the reconciliation of platform N are over.
C12_StrictlySequential ==
    /\ []C12_ReadsOwnProbe
    /\ [][C12_ProbeAfterRead /\ C12_PlatformAfterStore]_vars

\* the second platform's sweep is about to dispatch a probe after the reads of
\* an earlier probe, the first platform's Series being stored with a record
C12_Witness ==
    /\ pc = "dispatch"
    /\ pi = 2
    /\ probe # None
    /\ contestRankings[PLATFORMS[1][2]] # None
    /\ contestRankings[PLATFORMS[1][2]] # Some(<<>>)

----------------------------------------------------------------------------
(* C13 *)

\* the panel snapshot of the pages of a whole request, and its Record
C13_Panel == Val(READ_PANEL_JS(PanelDom(<<"1", "5", "0", "0">>, <<"0", "1", " ", "J", "a", "n", " ", "2", "0", "2", "2">>, <<"W", "e", "e", "k", "l", "y", " ", "1">>, <<"5">>)))

C13_Record ==
    [rating |-> Some(1500), date |-> Some(<<"0", "1", " ", "J", "a", "n", " ", "2", "0", "2", "2">>),
     contestName |-> Some(<<"W", "e", "e", "k", "l", "y", " ", "1">>), rank |-> Some(5)]

\* each call returns what its list alone determines, whatever the calls before
\* it returned: no record for the empty list, the one record for a list of
\* copies of the panel
C13_SameListSameSeries ==
    pc = "store" =>
        /\ \A i \in 1..Len(snapshots) : snapshots[i] = C13_Panel
        /\ refined = IF snapshots = <<>> THEN <<>> ELSE <<C13_Record>>

\* the call leaves its input list as it was
C13_InputUnchanged == pc = "refine" => snapshots' = snapshots

\* C13: reconciliation carries no state from one call to the next and does not
\* modify its input: the calls of one request on equal lists return equal
\* Series, and after a call the candidates of its list are what they were.
C13_NoHiddenStateNoMutation ==
    /\ []C13_SameListSameSeries
    /\ [][C13_InputUnchanged]_vars

\* the second call has returned no record for the empty list, after the first
\* call returned a record
C13_Witness ==
    /\ pc = "store"
    /\ pi = 2
    /\ snapshots = <<>>
    /\ refined = <<>>
    /\ contestRankings[PLATFORMS[1][2]] = Some(<<C13_Record>>)

----------------------------------------------------------------------------
(* C14 *)

\* the score the reconciler gives the candidate parsed from a snapshot
C14_CodeScore(item) ==
    Score(ParseItem(item).rating, ParseItem(item).rank, ParseItem(item).date_str,
          ParseItem(item).contest)

\* C14: the score of a record is the number of its non-null fields among
\* rating, rank, date and contestName; an integer field that is 0 counts.
C14_ScoreCountsNonNull ==
    Reconciled =>
        \A i \in 1..Len(snapshots) :
            C14_CodeScore(snapshots[i]) = NonNullScore(CandidateRecord(snapshots[i]))

----------------------------------------------------------------------------
(* C15 *)

\* the Y values of the fan run from first to last by Y_SWEEP_STEP
C15_Stepped(ys, first, last) ==
    /\ ys # <<>>
    /\ ys[1] = first
    /\ ys[Len(ys)] = last
    /\ \A k \in 1..(Len(ys) - 1) : ys[k + 1] = ys[k] + Y_SWEEP_STEP

\* C15: for every X the Y values probed are centerY - half, centerY - half +
\* ySweepStep, ..., up to and including centerY + half, half being
\* ySweepPixels div 2: both end points of the fan are probed.
C15_FanReachesBothEnds ==
    (InFan /\ ~ZeroArea(box)) =>
        /\ C15_Stepped(YPositions(Val(box)), CenterY(Val(box)) - Half, CenterY(Val(box)) + Half)
        /\ probe # None => \E k \in 1..Len(YPositions(Val(box))) :
                               Val(probe)[2] = YPositions(Val(box))[k]

----------------------------------------------------------------------------
(* C16 *)

\* left + padX and left + width - padX, in units of 1/50 of a pixel
C16_Start50(b) == 50 * b.x + (IF 200 >= b.width THEN 200 ELSE b.width)

C16_End50(b) == 50 * (b.x + b.width) - (IF 200 >= b.width THEN 200 ELSE b.width)

\* x is v (in 1/50) rounded to an integer
C16_Rounds(x, v50) == 50 * x - v50 <= 25 /\ v50 - 50 * x <= 25

\* the X_STEPS coordinates of box b ascend from left + padX to left + width -
\* padX and stay between them, up to rounding
C16_PlanAscends(b) ==
    /\ C16_Rounds(XAt(b, 0), C16_Start50(b))
    /\ C16_Rounds(XAt(b, X_STEPS - 1), C16_End50(b))
    /\ \A i \in 0..(X_STEPS - 1) :
          /\ C16_Start50(b) - 25 <= 50 * XAt(b, i)
          /\ 50 * XAt(b, i) <= C16_End50(b) + 25
          /\ \A j \in i..(X_STEPS - 1) : XAt(b, i) <= XAt(b, j)

\* the probes of a sweep are at the X coordinates of the plan, X_STEPS of
\* them when the sweep returns
C16_ProbesFollowPlan ==
    /\ (InFan /\ probe # None) =>
          /\ \E i \in 0..xi : Val(probe)[1] = XAt(Val(box), i)
          /\ pc \in {"pause", "read_panel", "read_tips"} => Val(probe)[1] = XAt(Val(box), xi)
    /\ (pc = "refine" /\ box # None) => xi = X_STEPS - 1

\* C16 as stated: for any bounding box (with an area) the sweep visits xSteps
\* X coordinates, in non-decreasing order, each within [left + padX, left +
\* width - padX], the first left + padX and the last left + width - padX, up
\* to rounding.
C16_AnyBoxAscends ==
    (InFan /\ ~ZeroArea(box)) => (C16_PlanAscends(Val(box)) /\ C16_ProbesFollowPlan)

\* a box with an area that is at least 2 * padX wide
C16_WideBox(b) == b # None /\ ~ZeroArea(b) /\ Val(b).width >= 8

\* the X of the probes of one sweep never decreases
C16_ProbeXAscends ==
    (C16_WideBox(box) /\ box' = box /\ probe # None /\ probe' # None) =>
        Val(probe)[1] <= Val(probe')[1]

\* C16, amended: for a bounding box at least 8 pixels wide the sweep visits
\* xSteps X coordinates, in non-decreasing order, each within [left + padX,
\* left + width - padX], the first left + padX and the last left + width -
\* padX, up to rounding.
C16_WideBoxAscends ==
    /\ []((InFan /\ C16_WideBox(box)) => C16_PlanAscends(Val(box)))
    /\ [](C16_WideBox(box) => C16_ProbesFollowPlan)
    /\ [][C16_ProbeXAscends]_vars

\* the reads of the last X of a box whose padding is 2% of its width are
\* under way, after probes at an earlier X
C16_Witness ==
    /\ pc = "read_tips"
    /\ C16_WideBox(box)
    /\ Val(box).width > 200
    /\ xi = X_STEPS - 1
    /\ Val(probe)[1] = XAt(Val(box), xi)
    /\ XAt(Val(box), 0) < XAt(Val(box), xi)
    /\ snapshots # <<>>

----------------------------------------------------------------------------
(* C17 *)

\* the lines of a tooltip snapshot, trimmed, the empty ones left out
C17_Lines(item) == StrippedLines(SplitLines(item.raw_tooltip))

\* the positions of the lines that contain the token "Rank"
C17_RankLines(lines) == {k \in 1..Len(lines) : Contains(lines[k], <<"R", "a", "n", "k">>)}

\* the first of them
C17_FirstRankLine(lines) ==
    lines[CHOOSE k \in C17_RankLines(lines) : \A j \in C17_RankLines(lines) : k <= j]

\* C17: the rank of a tooltip snapshot is the integer of the digits of its
\* first line that contains "Rank"; a later line with "Rank" does not change it.
C17_FirstRankWins ==
    Reconciled =>
        \A i \in 1..Len(snapshots) :
            ( /\ "raw_tooltip" \in DOMAIN snapshots[i]
              /\ C17_RankLines(C17_Lines(snapshots[i])) # {}
              /\ DigitsOf(C17_FirstRankLine(C17_Lines(snapshots[i]))) # <<>> )
            => CandidateRecord(snapshots[i]).rank
                   = Some(IntOf(DigitsOf(C17_FirstRankLine(C17_Lines(snapshots[i])))))

----------------------------------------------------------------------------
(* C18 *)

C18_Outcomes == {"changed", "timeout", "error"}

\* nothing is raised by the wait or by the settle delay after it, and a sweep
\* or a reconciliation is under way only after a wait that has ended
C18_WaitNeverRaises ==
    /\ hist.raised_at \notin {"wait", "settle"}
    /\ pc \in {"settle", "sweep_query", "sweep_box", "dispatch", "pause", "read_panel",
                "read_tips", "refine", "store"} => hist.waited \in C18_Outcomes

\* an iteration that began with a successful click ends with the Series of
\* its reconciliation under the platform's key
C18_StoredAfterWait ==
    (pc \in {"click", "close"} /\ hist.clicked = "yes") =>
        (hist.waited \in C18_Outcomes /\ contestRankings[LastKey] = Some(refined))

\* the wait ends in the settle delay, whatever its outcome, and the settle
\* delay in the sweep; the request is not failed by it
C18_WaitGoesOnToSweep ==
    /\ pc = "wait" => (pc' = "settle" /\ hist'.waited \in C18_Outcomes
                        /\ hist'.raised = hist.raised /\ response' = response)
    /\ pc = "settle" => pc' = "sweep_query"

\* C18: after a successful click the panel-change wait always ends, changed,
\* timed out or in error, and in each case the sweep and the reconciliation
\* of the platform run next and their Series is stored under the platform's
\* key: the wait skips no sweep, raises nothing, fails no platform.
C18_TimeoutNeverSkipsSweep ==
    /\ [](C18_WaitNeverRaises /\ C18_StoredAfterWait)
    /\ [][C18_WaitGoesOnToSweep]_vars
    /\ (pc = "wait") ~> (pc = "sweep_query")

\* the wait timed out on a page that still shows the baseline panel, and the
\* platform's Series is stored with a record
C18_Witness ==
    /\ pc = "close"
    /\ hist.clicked = "yes"
    /\ hist.waited = "timeout"
    /\ old_panel # None
    /\ contestRankings[Key] = Some(refined)
    /\ refined # <<>>

----------------------------------------------------------------------------
(* C19 *)

\* the date and the contest name a page shows, as READ_PANEL_JS reads them
C19_Shown(dom) ==
    <<OldField(READ_PANEL_JS(dom), "date"), OldField(READ_PANEL_JS(dom), "contestName")>>

\* the steps of scrape_codolio that may follow one another
C19_Order ==
    { <<"goto", "click">>, <<"click", "baseline">>, <<"click", "close">>,
      <<"baseline", "wait">>, <<"wait", "settle">>, <<"settle", "sweep_query">>,
      <<"sweep_query", "sweep_box">>, <<"sweep_query", "refine">>,
      <<"sweep_box", "dispatch">>, <<"sweep_box", "refine">>,
      <<"dispatch", "pause">>, <<"pause", "read_panel">>,
      <<"read_panel", "read_tips">>, <<"read_panel", "dispatch">>, <<"read_panel", "refine">>,
      <<"read_tips", "dispatch">>, <<"read_tips", "refine">>,
      <<"refine", "store">>, <<"store", "click">>, <<"store", "close">>,
      <<"close", "done">>, <<"except", "done">> }

\* a step goes to the next stage of the platform, or to the handler
C19_FixedOrder ==
    pc' # pc => (<<pc, pc'>> \in C19_Order \/ (pc \in RaisingPcs /\ pc' = "except"))

\* the baseline is of a page read after the click has returned True, and the
\* wait compares against it
C19_BaselineAfterClick ==
    hist.base # None =>
        /\ hist.clicked = "yes"
        /\ pc \in {"wait", "settle"}
        /\ old_panel = READ_PANEL_JS(Val(hist.base))

\* a wait that ended with a change ended on a page whose date or contest name
\* is not the baseline's
C19_ChangeIsAChange ==
    (pc = "settle" /\ hist.waited = "changed") =>
        C19_Shown(Val(hist.polled)) # C19_Shown(Val(hist.base))

----------------------------------------------------------------------------
(* C20 *)

\* a record with neither a date nor a contest name
C20_Keyless(r) == r.date = None /\ r.contestName = None

\* the candidates of the input with neither, and with at least one field
C20_KeylessCandidates ==
    { i \in 1..Len(snapshots) :
        /\ C20_Keyless(CandidateRecord(snapshots[i]))
        /\ NonNullScore(CandidateRecord(snapshots[i])) > 0 }

\* the earliest of them with the highest score
C20_Survivor ==
    CHOOSE i \in C20_KeylessCandidates :
        \A j \in C20_KeylessCandidates :
            \/ NonNullScore(CandidateRecord(snapshots[j])) < NonNullScore(CandidateRecord(snapshots[i]))
            \/ ( /\ NonNullScore(CandidateRecord(snapshots[j])) = NonNullScore(CandidateRecord(snapshots[i]))
                 /\ i <= j )

\* C20: the candidates with neither a date nor a contest name share the key
\* ('', ''): the Series holds at most one record without both, whatever the
\* number of such candidates, and it is the earliest of them with the highest
\* score.
C20_OneKeylessRecord ==
    Reconciled =>
        /\ Cardinality({ n \in 1..Len(refined) : C20_Keyless(refined[n]) }) <= 1
        /\ C20_KeylessCandidates # {} =>
              \E n \in 1..Len(refined) :
                  /\ C20_Keyless(refined[n])
                  /\ refined[n] = CandidateRecord(snapshots[C20_Survivor])

====
